---- MODULE Spec2Model ----
(***************************************************************************)
(* Client-side form logic of the warehouse application:                    *)
(*   - order creation   (static/js/compras/crear-orden-refactored.js)      *)
(*   - asset delivery   (static/js/bodega/entrega-bienes.js)               *)
(*   - article delivery (the articles twin of entrega-bienes.js)           *)
(* A page loads exactly one of the three scripts; `pagina` says which.     *)
(*                                                                         *)
(* Numbers.  A form field is <<>> when empty and <<n>> when it holds the   *)
(* number n.  Quantities typed by the user or sent by the server are       *)
(* counted in halves (two halves per unit), so that parseInt,              *)
(* parseFloat and Math.floor differ as they do in the code.  The quantity  *)
(* field of the order page only ever holds whole numbers (InputBuilder     *)
(* floors whatever reaches it) and is kept in whole units.  Money is in    *)
(* thousandths.                                                            *)
(***************************************************************************)
EXTENDS Integers, Sequences, FiniteSets, TLC

VARIABLES
    pagina,                    \* which script the page runs
    evento,                    \* the handler that ran last: [nombre, arg, tipo, res]
    avisos,                    \* notices (alert / mostrarAlerta) shown by that handler
    ediciones,                 \* number of 'input' events so far (bounded)
    \* ---- order creation: OrdenCompraController
    solicitudesSeleccionadas,
    contadorArticulos,
    contadorBienes,
    tbodyArticulos,            \* item rows of #tbody-articulos-orden, in DOM order
    tbodyBienes,               \* item rows of #tbody-bienes-orden
    mensajeVacio,              \* [articulo, bien]: the one-cell placeholder row is present
    seccionVisible,            \* [articulo, bien]: style.display of the section is 'block'
    totales,                   \* what updateAllTotales computed last
    camposSolicitudes,         \* values of the hidden 'solicitudes' inputs
    botonAccion,               \* data-action of each request's toggle button
    enVuelo,                   \* per request: <<>> or <<ids sent>> of its outstanding fetch
    articulosJson,
    bienesJson,
    \* ---- delivery pages: entrega-bienes.js and its articles twin
    seleccionados,             \* bienesSeleccionados / articulosSeleccionados
    contadorFilas,
    solicitudCargada,
    tbodyEntrega,              \* rows of #tbody-bienes / #tbody-articulos, in DOM order
    selectSolicitud,           \* value of #id_solicitud (0: the empty option)
    modalVisible,
    tablaVisible,              \* table container shown, 'sin-bienes' message hidden
    infoVisible,               \* #infoSolicitud is shown
    cargasEnVuelo,             \* per delivery request: its outstanding fetches
    detallesJson,
    \* ---- a function of the scripts called on its own
    entrada,                   \* the function and the arguments of the call
    salida                     \* <<>> before the call, then <<what the call produced>>

varsOrden == <<solicitudesSeleccionadas, contadorArticulos, contadorBienes,
               tbodyArticulos, tbodyBienes, mensajeVacio, seccionVisible, totales,
               camposSolicitudes, botonAccion, enVuelo, articulosJson, bienesJson>>

varsEntrega == <<seleccionados, contadorFilas, solicitudCargada, tbodyEntrega,
                 selectSolicitud, modalVisible, tablaVisible, infoVisible,
                 cargasEnVuelo, detallesJson>>

varsFunciones == <<entrada, salida>>

----------------------------------------------------------------------------
(* Bounds of the model *)

\* Rows of one kind the order page may create in a behaviour (cap of
\* contadorArticulos and contadorBienes).
MaxContador == 3
\* Rows a delivery page may create in a behaviour (cap of contadorFilas).
MaxFilas == 2
\* 'input' events in a behaviour.
MaxEdiciones == 1
\* Fetches of one delivery request outstanding at the same time.
MaxEnVuelo == 1
\* Ids in a list handed to fetchDetallesSolicitudes called on its own.
MaxIds == 2

----------------------------------------------------------------------------
(* Numbers and fields *)

\* parseFloat(field.value) || 0
NumOrZero(campo) == IF campo = <<>> THEN 0 ELSE campo[1]

\* Math.floor of a number of halves, in whole units.
Floor(h) == h \div 2

\* parseInt of a number of halves: truncation toward zero, in halves.
ParseInt(h) == IF h >= 0 THEN (h \div 2) * 2 ELSE -(((-h) \div 2) * 2)

\* A number of halves that prints with a decimal point.
TienePunto(h) == h % 2 # 0

RECURSIVE SeqSum(_)
SeqSum(s) == IF s = <<>> THEN 0 ELSE Head(s) + SeqSum(Tail(s))

Range(s) == {s[i] : i \in 1..Len(s)}

----------------------------------------------------------------------------
(* The server's data: the detail records of each purchase request *)

Solicitudes == {1, 2}

\* cantidad_aprobada in halves, precio_unitario in thousandths
DetallesDe(id) ==
    IF id = 1
    THEN << [tipo |-> "articulo", ref |-> 1, solicitud_id |-> 1,
             cantidad_aprobada |-> 4, precio_unitario |-> 50000],
            [tipo |-> "bien", ref |-> 2, solicitud_id |-> 1,
             cantidad_aprobada |-> 2, precio_unitario |-> 30000] >>
    ELSE << [tipo |-> "articulo", ref |-> 2, solicitud_id |-> 2,
             cantidad_aprobada |-> 5, precio_unitario |-> 0] >>

\* The body of /compras/api/obtener-detalles-solicitudes/ for the ids sent.
RECURSIVE DetallesRespuesta(_)
DetallesRespuesta(ids) ==
    IF ids = <<>> THEN <<>>
    ELSE DetallesDe(Head(ids)) \o DetallesRespuesta(Tail(ids))

----------------------------------------------------------------------------
(* APIClient *)

\* mutant: the length check is missing, a call is issued for any list
fetchDetallesSolicitudesSinGuarda(solicitudIds) ==
    [llamadas |-> <<solicitudIds>>, estado |-> "pendiente", valor |-> <<>>]

\* fetchDetallesSolicitudes up to its first await.  llamadas: the network calls
\* issued, each one the values of its 'solicitudes[]' parameters in order;
\* estado and valor: how the returned promise stands
fetchDetallesSolicitudes(solicitudIds) ==
    IF Len(solicitudIds) = 0
    THEN [llamadas |-> <<>>, estado |-> "resuelta", valor |-> <<>>]
    ELSE [llamadas |-> <<[i \in 1..Len(solicitudIds) |-> solicitudIds[i]]>>,
          estado |-> "pendiente", valor |-> <<>>]

\* fetchDetallesSolicitudes after its awaits: return data.detalles || [], or the
\* error thrown again
fetchDetallesSolicitudesResuelto(llamada, resultado) ==
    IF resultado = "error"
    THEN [llamada EXCEPT !.estado = "rechazada"]
    ELSE [llamada EXCEPT !.estado = "resuelta",
                         !.valor = IF resultado = "ok"
                                   THEN DetallesRespuesta(llamada.llamadas[1])
                                   ELSE <<>>]

----------------------------------------------------------------------------
(* TotalesCalculator *)

\* mutant: a negative subtotal is raised to zero
calculateSubtotalAcotado(cantidad, precioUnitario, descuento) ==
    IF (cantidad * precioUnitario) - descuento < 0 THEN 0
    ELSE (cantidad * precioUnitario) - descuento

calculateSubtotal(cantidad, precioUnitario, descuento) ==
    (cantidad * precioUnitario) - descuento

\* updateArticuloSubtotal / updateBienSubtotal: the subtotal of one row
updateSubtotal(fila) ==
    calculateSubtotal(NumOrZero(fila.cantidad), NumOrZero(fila.precio),
                      NumOrZero(fila.descuento))

\* the loop  for (i = 0; i < contador; i++) if (getElementById(fila_i)) total += ...
RECURSIVE SumaHasta(_, _)
SumaHasta(tbody, contador) ==
    IF tbody = <<>> THEN 0
    ELSE (IF Head(tbody).index < contador THEN updateSubtotal(Head(tbody)) ELSE 0)
         + SumaHasta(Tail(tbody), contador)

updateAllTotales(tbA, tbB, contA, contB) ==
    LET totalArticulos == SumaHasta(tbA, contA)
        totalBienes    == SumaHasta(tbB, contB)
    IN  [totalArticulos |-> totalArticulos,
         totalBienes    |-> totalBienes,
         totalGeneral   |-> totalArticulos + totalBienes]

----------------------------------------------------------------------------
(* InputBuilder and the row builders *)

\* createCantidadInput: initialValue ? Math.floor(parseFloat(initialValue)) : ''
createCantidadInput(initialValue) ==
    IF initialValue = 0 THEN <<>> ELSE <<Floor(initialValue)>>

\* createPrecioInput: initialValue ? parseFloat(initialValue) : 0
createPrecioInput(initialValue) == <<initialValue>>

\* ArticuloRowBuilder.buildRow / BienRowBuilder.buildRow
buildRow(detalle, index) ==
    [index     |-> index,
     ref       |-> detalle.ref,
     solicitud |-> detalle.solicitud_id,
     cantidad  |-> createCantidadInput(detalle.cantidad_aprobada),
     precio    |-> createPrecioInput(detalle.precio_unitario),
     descuento |-> <<0>>]

----------------------------------------------------------------------------
(* OrdenCompraController: the synchronous helpers, on a record of the page state *)

Estado ==
    [tbA |-> tbodyArticulos, tbB |-> tbodyBienes,
     contA |-> contadorArticulos, contB |-> contadorBienes,
     vacio |-> mensajeVacio, seccion |-> seccionVisible, tot |-> totales]

agregarArticuloSolicitud(st, detalle) ==
    LET fila  == buildRow(detalle, st.contA)
        tbA   == Append(st.tbA, fila)
        contA == st.contA + 1
    IN  [st EXCEPT !.vacio.articulo = IF Len(st.tbA) = 0 THEN FALSE ELSE @,
                   !.tbA = tbA,
                   !.contA = contA,
                   !.tot = updateAllTotales(tbA, st.tbB, contA, st.contB),
                   !.seccion.articulo = TRUE]

agregarBienSolicitud(st, detalle) ==
    LET fila  == buildRow(detalle, st.contB)
        tbB   == Append(st.tbB, fila)
        contB == st.contB + 1
    IN  [st EXCEPT !.vacio.bien = IF Len(st.tbB) = 0 THEN FALSE ELSE @,
                   !.tbB = tbB,
                   !.contB = contB,
                   !.tot = updateAllTotales(st.tbA, tbB, st.contA, contB),
                   !.seccion.bien = TRUE]

RECURSIVE procesarDetalles(_, _)
procesarDetalles(st, detalles) ==
    IF detalles = <<>> THEN st
    ELSE procesarDetalles(
             IF Head(detalles).tipo = "articulo"
             THEN agregarArticuloSolicitud(st, Head(detalles))
             ELSE agregarBienSolicitud(st, Head(detalles)),
             Tail(detalles))

\* mutant: the table body is emptied instead of the request's rows being removed
quitarFilasDeSolicitudTodas(tbody, solicitudId) == <<>>

\* querySelectorAll('tr[data-solicitud-id=...]') then remove()
quitarFilasDeSolicitud(tbody, solicitudId) ==
    SelectSeq(tbody, LAMBDA f : f.solicitud # solicitudId)

quitarArticulosDeSolicitud(st, solicitudId) ==
    LET tbA == quitarFilasDeSolicitud(st.tbA, solicitudId)
        sinHijos == tbA = <<>> /\ ~st.vacio.articulo
    IN  [st EXCEPT !.tbA = tbA,
                   !.vacio.articulo = IF sinHijos THEN TRUE ELSE @,
                   !.seccion.articulo = IF sinHijos THEN FALSE ELSE @]

quitarBienesDeSolicitud(st, solicitudId) ==
    LET tbB == quitarFilasDeSolicitud(st.tbB, solicitudId)
        sinHijos == tbB = <<>> /\ ~st.vacio.bien
    IN  [st EXCEPT !.tbB = tbB,
                   !.vacio.bien = IF sinHijos THEN TRUE ELSE @,
                   !.seccion.bien = IF sinHijos THEN FALSE ELSE @]

\* mutant: the totals are not recomputed after rows were removed or edited
actualizarTotalesOmitido(st) == st

actualizarTotales(st) ==
    [st EXCEPT !.tot = updateAllTotales(st.tbA, st.tbB, st.contA, st.contB)]

\* mutant: the tables are emptied before the details of every selected request are
\* fetched again, so a failed fetch leaves them empty
cargarArticulosDeSolicitudesVaciando(st, ids, resultado) ==
    LET limpio == [st EXCEPT !.tbA = <<>>, !.tbB = <<>>]
    IN  IF resultado = "error" THEN limpio
        ELSE procesarDetalles(limpio,
                              IF resultado = "ok" THEN DetallesRespuesta(ids) ELSE <<>>)

\* cargarArticulosDeSolicitudes once the fetch has settled: the catch block only
\* alerts; a body without "detalles" is processed as an empty list
cargarArticulosDeSolicitudes(st, ids, resultado) ==
    IF resultado = "error" THEN st
    ELSE procesarDetalles(st, IF resultado = "ok" THEN DetallesRespuesta(ids) ELSE <<>>)

\* indexOf + splice(index, 1)
QuitarDeLista(lista, x) ==
    IF \E i \in 1..Len(lista) : lista[i] = x
    THEN LET i == CHOOSE k \in 1..Len(lista) :
                      lista[k] = x /\ \A j \in 1..(k - 1) : lista[j] # x
         IN  SubSeq(lista, 1, i - 1) \o SubSeq(lista, i + 1, Len(lista))
    ELSE lista

\* writes a page-state record back to the variables
Asignar(st) ==
    /\ tbodyArticulos' = st.tbA
    /\ tbodyBienes' = st.tbB
    /\ contadorArticulos' = st.contA
    /\ contadorBienes' = st.contB
    /\ mensajeVacio' = st.vacio
    /\ seccionVisible' = st.seccion
    /\ totales' = st.tot

----------------------------------------------------------------------------
(* What the user can type into the fields of an order row *)

\* text typed into a quantity field, in halves: 0.5, 3
CantidadesTecleadas == {<<1>>, <<6>>}
\* text typed into a price field, in thousandths: 1.005
PreciosTecleados == {<<1005>>}
\* text typed into a discount field, in thousandths: 200
DescuentosTecleados == {<<200000>>}

Ev(nombre, arg, tipo, res) == [nombre |-> nombre, arg |-> arg, tipo |-> tipo, res |-> res]

\* The page runs script p and has not navigated away on a submit.
Activa(p) == pagina = p /\ evento.res # "enviado"

----------------------------------------------------------------------------
(* OrdenCompraController: the event handlers *)

\* handleSolicitudClick on a button whose data-action is 'agregar', up to the
\* await of the fetch inside cargarArticulosDeSolicitudes
agregarSolicitud(solicitudId) ==
    /\ Activa("orden")
    /\ botonAccion[solicitudId] = "agregar"
    /\ IF solicitudId \in Range(solicitudesSeleccionadas)
       THEN /\ evento' = Ev("agregarSolicitud", solicitudId, "", "ignorada")
            /\ UNCHANGED <<solicitudesSeleccionadas, enVuelo>>
       ELSE /\ solicitudesSeleccionadas' = Append(solicitudesSeleccionadas, solicitudId)
            /\ enVuelo' = [enVuelo EXCEPT ![solicitudId] =
                              fetchDetallesSolicitudes(solicitudesSeleccionadas').llamadas]
            /\ evento' = Ev("agregarSolicitud", solicitudId, "", "fetch")
    /\ avisos' = 0
    /\ UNCHANGED <<varsFunciones, varsEntrega, pagina, ediciones, contadorArticulos, contadorBienes, tbodyArticulos,
                   tbodyBienes, mensajeVacio, seccionVisible, totales, camposSolicitudes,
                   botonAccion, articulosJson, bienesJson>>

\* mutant: the button keeps the data-action it had
toggleBotonSolicitudSinCambio(botones, solicitudId, accion) == botones

\* toggleBotonSolicitud; document.querySelector('tr[data-solicitud-id=...]') is taken
\* to find the request's row of #tabla-solicitudes-disponibles
toggleBotonSolicitud(botones, solicitudId, accion) ==
    [botones EXCEPT ![solicitudId] = IF accion = "agregar" THEN "quitar" ELSE "agregar"]

\* the rest of agregarSolicitud, once the fetch it awaits has settled:
\* resultado is "ok" (a body with detalles), "sin_detalles" (a body without) or
\* "error" (fetch rejected or response.json() threw)
respuestaSolicitudes(solicitudId, resultado) ==
    /\ Activa("orden")
    /\ enVuelo[solicitudId] # <<>>
    /\ LET st == cargarArticulosDeSolicitudes(Estado, enVuelo[solicitudId][1], resultado)
       IN  /\ st.contA <= MaxContador
           /\ st.contB <= MaxContador
           /\ Asignar(st)
    /\ avisos' = IF resultado = "error" THEN 1 ELSE 0
    /\ enVuelo' = [enVuelo EXCEPT ![solicitudId] = <<>>]
    /\ camposSolicitudes' = solicitudesSeleccionadas
    /\ botonAccion' = toggleBotonSolicitud(botonAccion, solicitudId, "agregar")
    /\ evento' = Ev("respuestaSolicitudes", solicitudId, "", resultado)
    /\ UNCHANGED <<varsFunciones, varsEntrega, pagina, ediciones, solicitudesSeleccionadas, articulosJson, bienesJson>>

\* handleSolicitudClick on a button whose data-action is not 'agregar'
quitarSolicitud(solicitudId) ==
    /\ Activa("orden")
    /\ botonAccion[solicitudId] # "agregar"
    /\ solicitudesSeleccionadas' = QuitarDeLista(solicitudesSeleccionadas, solicitudId)
    /\ Asignar(actualizarTotales(
                   quitarBienesDeSolicitud(
                       quitarArticulosDeSolicitud(Estado, solicitudId), solicitudId)))
    /\ camposSolicitudes' = solicitudesSeleccionadas'
    /\ botonAccion' = toggleBotonSolicitud(botonAccion, solicitudId, "quitar")
    /\ avisos' = 0
    /\ evento' = Ev("quitarSolicitud", solicitudId, "", "")
    /\ UNCHANGED <<varsFunciones, varsEntrega, pagina, ediciones, enVuelo, articulosJson, bienesJson>>

\* fila.remove() of the row with that index
quitarFila(tbody, index) == SelectSeq(tbody, LAMBDA f : f.index # index)

\* click on the delete button of a row
eliminarFila(index, tipo) ==
    /\ Activa("orden")
    /\ \E f \in Range(IF tipo = "articulo" THEN tbodyArticulos ELSE tbodyBienes) :
           f.index = index
    /\ Asignar(actualizarTotales(
                   IF tipo = "articulo"
                   THEN [Estado EXCEPT !.tbA = quitarFila(@, index)]
                   ELSE [Estado EXCEPT !.tbB = quitarFila(@, index)]))
    /\ avisos' = 0
    /\ evento' = Ev("eliminarFila", index, tipo, "")
    /\ UNCHANGED <<varsFunciones, varsEntrega, pagina, ediciones, solicitudesSeleccionadas, camposSolicitudes,
                   botonAccion, enVuelo, articulosJson, bienesJson>>

\* the 'input' listener of createCantidadInput: a value with a decimal point is
\* replaced by  Math.floor(parseFloat(value)) || ''
cantidadAlTeclear(tecleado) ==
    IF tecleado = <<>> THEN <<>>
    ELSE IF TienePunto(tecleado[1])
         THEN (IF Floor(tecleado[1]) = 0 THEN <<>> ELSE <<Floor(tecleado[1])>>)
         ELSE <<tecleado[1] \div 2>>

ConCampo(tbody, index, campo, valor) ==
    [i \in 1..Len(tbody) |->
        IF tbody[i].index = index THEN [tbody[i] EXCEPT ![campo] = valor] ELSE tbody[i]]

\* an 'input' event on a field of a row: the field's own listener, then onInputChange
inputCampo(index, tipo, campo, tecleado) ==
    /\ Activa("orden")
    /\ ediciones < MaxEdiciones
    /\ \E f \in Range(IF tipo = "articulo" THEN tbodyArticulos ELSE tbodyBienes) :
           f.index = index
    /\ LET valor == IF campo = "cantidad" THEN cantidadAlTeclear(tecleado) ELSE tecleado
       IN  Asignar(actualizarTotales(
                   IF tipo = "articulo"
                   THEN [Estado EXCEPT !.tbA = ConCampo(@, index, campo, valor)]
                   ELSE [Estado EXCEPT !.tbB = ConCampo(@, index, campo, valor)]))
    /\ ediciones' = ediciones + 1
    /\ avisos' = 0
    /\ evento' = Ev("input", 0, tipo, campo)
    /\ UNCHANGED <<varsFunciones, varsEntrega, pagina, solicitudesSeleccionadas, camposSolicitudes, botonAccion,
                   enVuelo, articulosJson, bienesJson>>

\* FormValidator.validateArticulo / validateBien: the hidden id is always set by
\* buildRow; the quantity must be non-empty and parseInt(value) > 0
validateFila(fila) == fila.cantidad # <<>> /\ fila.cantidad[1] > 0

\* DataCollector.collectArticuloData / collectBienData
collectData(fila) ==
    [id              |-> fila.ref,
     cantidad        |-> fila.cantidad[1],
     precio_unitario |-> NumOrZero(fila.precio),
     descuento       |-> NumOrZero(fila.descuento)]

\* mutant: the loop stops one index short of the counter
FilasHastaPenultima(tbody, contador) == SelectSeq(tbody, LAMBDA f : f.index < contador - 1)

\* the rows  for (i = 0; i < contador; i++)  finds
FilasHasta(tbody, contador) == SelectSeq(tbody, LAMBDA f : f.index < contador)

\* DataCollector.collectAllArticulos / collectAllBienes, when no row throws
collectAll(tbody, contador) ==
    LET filas == FilasHasta(tbody, contador)
    IN  [i \in 1..Len(filas) |-> collectData(filas[i])]

todasValidasOrden(tbody, contador) ==
    \A f \in Range(FilasHasta(tbody, contador)) : validateFila(f)

\* mutant: the articles are written to their hidden field before the assets are
\* validated
handleFormSubmitGuardaAntes ==
    /\ Activa("orden")
    /\ IF todasValidasOrden(tbodyArticulos, contadorArticulos)
       THEN /\ articulosJson' = collectAll(tbodyArticulos, contadorArticulos)
            /\ IF todasValidasOrden(tbodyBienes, contadorBienes)
               THEN /\ bienesJson' = collectAll(tbodyBienes, contadorBienes)
                    /\ avisos' = 0
                    /\ evento' = Ev("handleFormSubmit", 0, "", "enviado")
               ELSE /\ avisos' = 1
                    /\ evento' = Ev("handleFormSubmit", 0, "", "cancelado")
                    /\ UNCHANGED bienesJson
       ELSE /\ avisos' = 1
            /\ evento' = Ev("handleFormSubmit", 0, "", "cancelado")
            /\ UNCHANGED <<articulosJson, bienesJson>>
    /\ UNCHANGED <<varsFunciones, varsEntrega, pagina, ediciones, solicitudesSeleccionadas, contadorArticulos,
                   contadorBienes, tbodyArticulos, tbodyBienes, mensajeVacio,
                   seccionVisible, totales, camposSolicitudes, botonAccion, enVuelo>>

\* the 'submit' event of #form-orden-compra; res "cancelado" is event.preventDefault(),
\* res "enviado" lets the native submission proceed (the page is left)
handleFormSubmit ==
    /\ Activa("orden")
    /\ IF /\ todasValidasOrden(tbodyArticulos, contadorArticulos)
          /\ todasValidasOrden(tbodyBienes, contadorBienes)
       THEN /\ articulosJson' = collectAll(tbodyArticulos, contadorArticulos)
            /\ bienesJson' = collectAll(tbodyBienes, contadorBienes)
            /\ avisos' = 0
            /\ evento' = Ev("handleFormSubmit", 0, "", "enviado")
       ELSE /\ avisos' = 1
            /\ evento' = Ev("handleFormSubmit", 0, "", "cancelado")
            /\ UNCHANGED <<articulosJson, bienesJson>>
    /\ UNCHANGED <<varsFunciones, varsEntrega, pagina, ediciones, solicitudesSeleccionadas, contadorArticulos,
                   contadorBienes, tbodyArticulos, tbodyBienes, mensajeVacio,
                   seccionVisible, totales, camposSolicitudes, botonAccion, enVuelo>>

----------------------------------------------------------------------------
(* Delivery pages: the server's data and the catalog of the modal *)

Entregas == {"bienes", "articulos"}

\* stock on hand of each catalog entry, in halves (data-articulo-stock)
Catalogo == {1, 2}
StockDe(id) == IF id = 1 THEN 6 ELSE 4

SolicitudesEntrega == {1, 2}

\* data.bienes / data.articulos of a delivery request; quantities in halves
ItemsDe(solicitudId) ==
    IF solicitudId = 1
    THEN << [id |-> 1, cantidad_pendiente |-> 4, stock_actual |-> StockDe(1)],
            [id |-> 2, cantidad_pendiente |-> 0, stock_actual |-> StockDe(2)] >>
    ELSE << [id |-> 2, cantidad_pendiente |-> 2, stock_actual |-> StockDe(2)] >>

\* text typed into a quantity field, in halves: 0.5, 2, 2.5
CantidadesEntrega == {<<1>>, <<4>>, <<5>>}

EnEntrega == pagina \in Entregas /\ evento.res # "enviado"

----------------------------------------------------------------------------
(* Delivery pages: helpers *)

\* agregarFilaBien / agregarFilaArticulo: the row appended to the table.
\* data-pendiente is  cantidadPendiente || 0,  the field starts at  cantidadSugerida || ''
agregarFilaBien(bien, desdeSolicitud, cantidadSugerida, filaId) ==
    [filaId         |-> filaId,
     id             |-> bien.id,
     desdeSolicitud |-> desdeSolicitud,
     pendiente      |-> NumOrZero(bien.cantidadPendiente),
     stock          |-> bien.stock,
     cantidad       |-> IF cantidadSugerida = 0 THEN <<>> ELSE <<cantidadSugerida>>,
     invalido       |-> FALSE]

\* the object cargarBienesEnTabla / cargarArticulosEnTabla builds from a record
bienData(bien) ==
    [id |-> bien.id, cantidadPendiente |-> <<bien.cantidad_pendiente>>,
     stock |-> bien.stock_actual]

\* the object seleccionarBien / seleccionarArticulo builds from the modal's row:
\* no cantidadPendiente; stock from data-articulo-stock
bienManual(id) == [id |-> id, cantidadPendiente |-> <<>>, stock |-> StockDe(id)]

\* mutant: every row of a load takes the same counter value
RECURSIVE cargarFilasMismoContador(_, _, _)
cargarFilasMismoContador(bienes, filas, contador) ==
    IF bienes = <<>> THEN filas
    ELSE cargarFilasMismoContador(Tail(bienes),
                     Append(filas, agregarFilaBien(bienData(Head(bienes)), TRUE,
                                                   Head(bienes).cantidad_pendiente,
                                                   contador)),
                     contador)

\* cargarBienesEnTabla / cargarArticulosEnTabla: the list and rows after the loop
RECURSIVE cargarFilas(_, _, _)
cargarFilas(bienes, filas, contador) ==
    IF bienes = <<>> THEN filas
    ELSE cargarFilas(Tail(bienes),
                     Append(filas, agregarFilaBien(bienData(Head(bienes)), TRUE,
                                                   Head(bienes).cantidad_pendiente,
                                                   contador)),
                     contador + 1)

\* mutant: the list is not emptied before the records are pushed
cargarListaSinVaciar(bienes) ==
    seleccionados \o [i \in 1..Len(bienes) |-> bienData(bienes[i])]

cargarLista(bienes) == [i \in 1..Len(bienes) |-> bienData(bienes[i])]

\* actualizarVisualizacionBienes: the table is shown iff tbody has a row
actualizarVisualizacion(filas) == Len(filas) # 0

\* the quantity validarYEnviarFormulario reads: parseInt for assets, parseFloat for
\* articles; <<>> stands for NaN
cantidadLeida(p, campo) ==
    IF campo = <<>> THEN <<>>
    ELSE IF p = "bienes" THEN <<ParseInt(campo[1])>> ELSE campo

\* mutant: only NaN is rejected
cantidadNoPositivaSoloNaN(cantidad) == cantidad = <<>>

\* validarYEnviarFormulario: !cantidad || cantidad <= 0
cantidadNoPositiva(cantidad) == cantidad = <<>> \/ cantidad[1] <= 0

\* validarYEnviarFormulario, articles only: cantidad > stock
excedeStock(p, fila, cantidad) == p = "articulos" /\ cantidad[1] > fila.stock

\* mutant: the pending quantity is not checked at submit
excedePendienteNunca(fila, cantidad) == FALSE

\* validarYEnviarFormulario: pendiente > 0 && cantidad > pendiente
excedePendiente(fila, cantidad) == fila.pendiente > 0 /\ cantidad[1] > fila.pendiente

filaValida(p, fila) ==
    LET cantidad == cantidadLeida(p, fila.cantidad)
    IN  /\ ~cantidadNoPositiva(cantidad)
        /\ ~excedeStock(p, fila, cantidad)
        /\ ~excedePendiente(fila, cantidad)

\* the rows for which validarYEnviarFormulario calls mostrarAlerta inside the loop
filaConAlerta(p, fila) ==
    LET cantidad == cantidadLeida(p, fila.cantidad)
    IN  /\ ~cantidadNoPositiva(cantidad)
        /\ excedeStock(p, fila, cantidad) \/ excedePendiente(fila, cantidad)

\* validarCantidadEnTiempoReal: parseFloat(input.value) || 0 against stock (articles)
\* and against the pending quantity
invalidaEnTiempoReal(p, fila, campo) ==
    LET cantidad == NumOrZero(campo)
    IN  \/ p = "articulos" /\ cantidad > fila.stock
        \/ fila.pendiente > 0 /\ cantidad > fila.pendiente

----------------------------------------------------------------------------
(* Delivery pages: the event handlers *)

\* click on #btn-agregar-bien / #btn-agregar-articulo
abrirModal ==
    /\ EnEntrega
    /\ IF solicitudCargada
       THEN /\ avisos' = 1
            /\ evento' = Ev("abrirModal", 0, "", "rechazado")
            /\ UNCHANGED modalVisible
       ELSE /\ avisos' = 0
            /\ modalVisible' = TRUE
            /\ evento' = Ev("abrirModal", 0, "", "")
    /\ UNCHANGED <<varsFunciones, varsOrden, pagina, ediciones, seleccionados, contadorFilas,
                   solicitudCargada, tbodyEntrega, selectSolicitud, tablaVisible,
                   infoVisible, cargasEnVuelo, detallesJson>>

\* mutant: the duplicate check is missing
yaSeleccionadoNunca(bienId) == FALSE

\* bienesSeleccionados.some(b => b.id === bienId)
yaSeleccionado(bienId) == \E b \in Range(seleccionados) : b.id = bienId

\* click on a .btn-seleccionar-bien button of the modal
seleccionarBien(bienId) ==
    /\ EnEntrega
    /\ modalVisible
    /\ IF yaSeleccionado(bienId)
       THEN /\ avisos' = 1
            /\ evento' = Ev("seleccionarBien", bienId, "", "duplicado")
            /\ UNCHANGED <<seleccionados, tbodyEntrega, contadorFilas, modalVisible,
                           tablaVisible>>
       ELSE /\ contadorFilas < MaxFilas
            /\ seleccionados' = Append(seleccionados, bienManual(bienId))
            /\ tbodyEntrega' = Append(tbodyEntrega,
                                      agregarFilaBien(bienManual(bienId), FALSE, 0,
                                                      contadorFilas))
            /\ contadorFilas' = contadorFilas + 1
            /\ modalVisible' = FALSE
            /\ tablaVisible' = actualizarVisualizacion(tbodyEntrega')
            /\ avisos' = 0
            /\ evento' = Ev("seleccionarBien", bienId, "", "agregado")
    /\ UNCHANGED <<varsFunciones, varsOrden, pagina, ediciones, solicitudCargada, selectSolicitud,
                   infoVisible, cargasEnVuelo, detallesJson>>

\* limpiarBienesSolicitud / limpiarArticulosSolicitud
limpiarBienesSolicitud ==
    /\ infoVisible' = FALSE
    /\ seleccionados' = <<>>
    /\ tbodyEntrega' = <<>>
    /\ solicitudCargada' = FALSE
    /\ tablaVisible' = actualizarVisualizacion(tbodyEntrega')

\* 'change' on #id_solicitud, up to the await of the fetch
handleSolicitudChange(valor) ==
    /\ EnEntrega
    /\ valor # selectSolicitud
    /\ selectSolicitud' = valor
    /\ avisos' = 0
    /\ IF valor # 0
       THEN /\ cargasEnVuelo' = [cargasEnVuelo EXCEPT ![valor] = @ + 1]
            /\ cargasEnVuelo[valor] < MaxEnVuelo
            /\ evento' = Ev("handleSolicitudChange", valor, "", "fetch")
            /\ UNCHANGED <<infoVisible, seleccionados, tbodyEntrega, solicitudCargada,
                           tablaVisible>>
       ELSE /\ limpiarBienesSolicitud
            /\ evento' = Ev("handleSolicitudChange", valor, "", "limpiar")
            /\ UNCHANGED cargasEnVuelo
    /\ UNCHANGED <<varsFunciones, varsOrden, pagina, ediciones, contadorFilas, modalVisible, detallesJson>>

\* the rest of cargarBienesSolicitud / cargarArticulosSolicitud once its fetch has
\* settled: resultado is "ok" (success = true), "sin_exito" (success = false),
\* "error" (fetch rejected or response.json() threw) or "sin_lista" (success = true
\* with data.solicitud but without data.bienes / data.articulos: the table and the
\* list are emptied, then forEach throws and the catch block alerts)
respuestaEntrega(solicitudId, resultado) ==
    /\ EnEntrega
    /\ cargasEnVuelo[solicitudId] > 0
    /\ cargasEnVuelo' = [cargasEnVuelo EXCEPT ![solicitudId] = @ - 1]
    /\ IF resultado = "ok"
       THEN /\ contadorFilas + Len(ItemsDe(solicitudId)) <= MaxFilas
            /\ infoVisible' = TRUE
            /\ seleccionados' = cargarLista(ItemsDe(solicitudId))
            /\ tbodyEntrega' = cargarFilas(ItemsDe(solicitudId), <<>>, contadorFilas)
            /\ contadorFilas' = contadorFilas + Len(ItemsDe(solicitudId))
            /\ tablaVisible' = actualizarVisualizacion(tbodyEntrega')
            /\ solicitudCargada' = TRUE
       ELSE IF resultado = "sin_lista"
       THEN /\ infoVisible' = TRUE
            /\ seleccionados' = <<>>
            /\ tbodyEntrega' = <<>>
            /\ UNCHANGED <<contadorFilas, tablaVisible, solicitudCargada>>
       ELSE UNCHANGED <<infoVisible, seleccionados, tbodyEntrega, contadorFilas,
                        tablaVisible, solicitudCargada>>
    /\ avisos' = 1
    /\ evento' = Ev("respuestaEntrega", solicitudId, "", resultado)
    /\ UNCHANGED <<varsFunciones, varsOrden, pagina, ediciones, selectSolicitud, modalVisible, detallesJson>>

\* mutant: the row is removed from the table, the list is left as it was
eliminarFilaBienSoloFila(filaId) ==
    /\ EnEntrega
    /\ \E f \in Range(tbodyEntrega) : f.filaId = filaId /\ ~f.desdeSolicitud
    /\ tbodyEntrega' = SelectSeq(tbodyEntrega, LAMBDA f : f.filaId # filaId)
    /\ tablaVisible' = actualizarVisualizacion(tbodyEntrega')
    /\ avisos' = 0
    /\ evento' = Ev("eliminarFilaBien", filaId, "", "")
    /\ UNCHANGED <<varsFunciones, varsOrden, pagina, ediciones, contadorFilas, solicitudCargada,
                   selectSolicitud, modalVisible, infoVisible, cargasEnVuelo,
                   detallesJson, seleccionados>>

\* click on the delete button of a row; rows loaded from a request get a disabled
\* button and no listener
eliminarFilaBien(filaId) ==
    /\ EnEntrega
    /\ \E f \in Range(tbodyEntrega) : f.filaId = filaId /\ ~f.desdeSolicitud
    /\ LET fila == CHOOSE f \in Range(tbodyEntrega) : f.filaId = filaId
       IN  /\ seleccionados' = SelectSeq(seleccionados, LAMBDA b : b.id # fila.id)
           /\ tbodyEntrega' = SelectSeq(tbodyEntrega, LAMBDA f : f.filaId # filaId)
    /\ tablaVisible' = actualizarVisualizacion(tbodyEntrega')
    /\ avisos' = 0
    /\ evento' = Ev("eliminarFilaBien", filaId, "", "")
    /\ UNCHANGED <<varsFunciones, varsOrden, pagina, ediciones, contadorFilas, solicitudCargada,
                   selectSolicitud, modalVisible, infoVisible, cargasEnVuelo,
                   detallesJson>>

\* an 'input' event on the quantity field of a row: validarCantidadEnTiempoReal
inputCantidad(filaId, tecleado) ==
    /\ EnEntrega
    /\ ediciones < MaxEdiciones
    /\ \E f \in Range(tbodyEntrega) : f.filaId = filaId
    /\ tbodyEntrega' =
           [i \in 1..Len(tbodyEntrega) |->
               IF tbodyEntrega[i].filaId = filaId
               THEN [tbodyEntrega[i] EXCEPT
                        !.cantidad = tecleado,
                        !.invalido = invalidaEnTiempoReal(pagina, tbodyEntrega[i], tecleado)]
               ELSE tbodyEntrega[i]]
    /\ ediciones' = ediciones + 1
    /\ avisos' = 0
    /\ evento' = Ev("inputCantidad", 0, "", "")
    /\ UNCHANGED <<varsFunciones, varsOrden, pagina, seleccionados, contadorFilas, solicitudCargada,
                   selectSolicitud, modalVisible, tablaVisible, infoVisible,
                   cargasEnVuelo, detallesJson>>

\* the detalles array validarYEnviarFormulario builds: one entry per valid row
detallesDe(p, filas) ==
    LET validas == SelectSeq(filas, LAMBDA f : filaValida(p, f))
    IN  [i \in 1..Len(validas) |->
            [id |-> validas[i].id,
             cantidad |-> cantidadLeida(p, validas[i].cantidad)[1]]]

\* mutant: todasValidas is not tested, the valid rows are submitted
validarYEnviarFormularioSinTodasValidas ==
    /\ EnEntrega
    /\ IF Len(seleccionados) = 0
       THEN /\ avisos' = 1
            /\ evento' = Ev("validarYEnviarFormulario", 0, "", "sin_bienes")
            /\ UNCHANGED <<tbodyEntrega, detallesJson>>
       ELSE LET todasValidas == \A f \in Range(tbodyEntrega) : filaValida(pagina, f)
                alertas == Cardinality({i \in 1..Len(tbodyEntrega) :
                                           filaConAlerta(pagina, tbodyEntrega[i])})
                detalles == detallesDe(pagina, tbodyEntrega)
            IN  /\ tbodyEntrega' =
                       [i \in 1..Len(tbodyEntrega) |->
                           [tbodyEntrega[i] EXCEPT
                               !.invalido = ~filaValida(pagina, tbodyEntrega[i])]]
                /\ IF FALSE
                   THEN /\ avisos' = alertas + 1
                        /\ evento' = Ev("validarYEnviarFormulario", 0, "", "invalido")
                        /\ UNCHANGED detallesJson
                   ELSE IF Len(detalles) = 0
                   THEN /\ avisos' = 1
                        /\ evento' = Ev("validarYEnviarFormulario", 0, "", "sin_detalles")
                        /\ UNCHANGED detallesJson
                   ELSE /\ avisos' = 0
                        /\ detallesJson' = detalles
                        /\ evento' = Ev("validarYEnviarFormulario", 0, "", "enviado")
    /\ UNCHANGED <<varsFunciones, varsOrden, pagina, ediciones, seleccionados, contadorFilas,
                   solicitudCargada, selectSolicitud, modalVisible, tablaVisible,
                   infoVisible, cargasEnVuelo>>

\* the 'submit' event of the delivery form; res "enviado" is e.target.submit()
validarYEnviarFormulario ==
    /\ EnEntrega
    /\ IF Len(seleccionados) = 0
       THEN /\ avisos' = 1
            /\ evento' = Ev("validarYEnviarFormulario", 0, "", "sin_bienes")
            /\ UNCHANGED <<tbodyEntrega, detallesJson>>
       ELSE LET todasValidas == \A f \in Range(tbodyEntrega) : filaValida(pagina, f)
                alertas == Cardinality({i \in 1..Len(tbodyEntrega) :
                                           filaConAlerta(pagina, tbodyEntrega[i])})
                detalles == detallesDe(pagina, tbodyEntrega)
            IN  /\ tbodyEntrega' =
                       [i \in 1..Len(tbodyEntrega) |->
                           [tbodyEntrega[i] EXCEPT
                               !.invalido = ~filaValida(pagina, tbodyEntrega[i])]]
                /\ IF ~todasValidas
                   THEN /\ avisos' = alertas + 1
                        /\ evento' = Ev("validarYEnviarFormulario", 0, "", "invalido")
                        /\ UNCHANGED detallesJson
                   ELSE IF Len(detalles) = 0
                   THEN /\ avisos' = 1
                        /\ evento' = Ev("validarYEnviarFormulario", 0, "", "sin_detalles")
                        /\ UNCHANGED detallesJson
                   ELSE /\ avisos' = 0
                        /\ detallesJson' = detalles
                        /\ evento' = Ev("validarYEnviarFormulario", 0, "", "enviado")
    /\ UNCHANGED <<varsFunciones, varsOrden, pagina, ediciones, seleccionados, contadorFilas,
                   solicitudCargada, selectSolicitud, modalVisible, tablaVisible,
                   infoVisible, cargasEnVuelo>>

----------------------------------------------------------------------------
(* Initial state and next-state relation *)

vars == <<pagina, evento, avisos, ediciones, varsOrden, varsEntrega, varsFunciones>>

InitOrden ==
    /\ solicitudesSeleccionadas = <<>>
    /\ contadorArticulos = 0
    /\ contadorBienes = 0
    /\ tbodyArticulos = <<>>
    /\ tbodyBienes = <<>>
    /\ mensajeVacio = [articulo |-> TRUE, bien |-> TRUE]
    /\ seccionVisible = [articulo |-> FALSE, bien |-> FALSE]
    /\ totales = [totalArticulos |-> 0, totalBienes |-> 0, totalGeneral |-> 0]
    /\ camposSolicitudes = <<>>
    /\ botonAccion = [s \in Solicitudes |-> "agregar"]
    /\ enVuelo = [s \in Solicitudes |-> <<>>]
    /\ articulosJson = <<>>
    /\ bienesJson = <<>>

\* the module state of the delivery scripts after inicializar()
InitEntrega ==
    /\ seleccionados = <<>>
    /\ contadorFilas = 0
    /\ solicitudCargada = FALSE
    /\ tbodyEntrega = <<>>
    /\ selectSolicitud = 0
    /\ modalVisible = FALSE
    /\ tablaVisible = FALSE
    /\ infoVisible = FALSE
    /\ cargasEnVuelo = [s \in SolicitudesEntrega |-> 0]
    /\ detallesJson = <<>>

Init ==
    /\ pagina \in {"orden"} \cup Entregas
    /\ evento = Ev("inicio", 0, "", "")
    /\ avisos = 0
    /\ ediciones = 0
    /\ InitOrden
    /\ InitEntrega
    /\ entrada = [fn |-> "ninguna"]
    /\ salida = <<>>

Tipos == {"articulo", "bien"}

NextOrden ==
    \/ \E s \in Solicitudes : agregarSolicitud(s)
    \/ \E s \in Solicitudes, r \in {"ok", "sin_detalles", "error"} : respuestaSolicitudes(s, r)
    \/ \E s \in Solicitudes : quitarSolicitud(s)
    \/ \E i \in 0..(MaxContador - 1), t \in Tipos : eliminarFila(i, t)
    \/ \E i \in 0..(MaxContador - 1), t \in Tipos, v \in CantidadesTecleadas :
          inputCampo(i, t, "cantidad", v)
    \/ \E i \in 0..(MaxContador - 1), t \in Tipos, v \in PreciosTecleados :
          inputCampo(i, t, "precio", v)
    \/ \E i \in 0..(MaxContador - 1), t \in Tipos, v \in DescuentosTecleados :
          inputCampo(i, t, "descuento", v)
    \/ handleFormSubmit

NextEntrega ==
    \/ abrirModal
    \/ \E b \in Catalogo : seleccionarBien(b)
    \/ \E s \in SolicitudesEntrega \cup {0} : handleSolicitudChange(s)
    \/ \E s \in SolicitudesEntrega, r \in {"ok", "sin_exito", "error", "sin_lista"} :
          respuestaEntrega(s, r)
    \/ \E i \in 0..(MaxFilas - 1) : eliminarFilaBien(i)
    \/ \E i \in 0..(MaxFilas - 1), v \in CantidadesEntrega : inputCantidad(i, v)
    \/ validarYEnviarFormulario

Next == NextOrden \/ NextEntrega

\* a page running any of the three scripts
Spec == Init /\ [][Next]_vars

\* the order-creation page
InicioOrden == Init /\ pagina = "orden"
SpecOrden == InicioOrden /\ [][NextOrden]_vars

\* the two delivery pages
InicioEntrega == Init /\ pagina \in Entregas
SpecEntrega == InicioEntrega /\ [][NextEntrega]_vars

----------------------------------------------------------------------------
(* The list-applying functions called on their own: procesarDetalles on the
   order page, cargarBienesEnTabla / cargarArticulosEnTabla on the delivery
   pages, with a fetched list as argument, between edits and row deletions *)

\* the id lists whose detail records are applied
ListasDeIds == << <<1>>, <<2>>, <<1, 2>> >>

\* procesarDetalles(detalles) with the detail records of the k-th id list
llamarProcesarDetalles(k) ==
    /\ Activa("orden")
    /\ LET st == procesarDetalles(Estado, DetallesRespuesta(ListasDeIds[k]))
       IN  /\ st.contA <= MaxContador
           /\ st.contB <= MaxContador
           /\ Asignar(st)
    /\ avisos' = 0
    /\ evento' = Ev("procesarDetalles", k, "", "")
    /\ UNCHANGED <<varsFunciones, varsEntrega, pagina, ediciones, solicitudesSeleccionadas, camposSolicitudes,
                   botonAccion, enVuelo, articulosJson, bienesJson>>

\* cargarBienesEnTabla(bienes, solicitud) / cargarArticulosEnTabla with the items
\* of a delivery request
llamarCargarEnTabla(solicitudId) ==
    /\ EnEntrega
    /\ contadorFilas + Len(ItemsDe(solicitudId)) <= MaxFilas
    /\ seleccionados' = cargarLista(ItemsDe(solicitudId))
    /\ tbodyEntrega' = cargarFilas(ItemsDe(solicitudId), <<>>, contadorFilas)
    /\ contadorFilas' = contadorFilas + Len(ItemsDe(solicitudId))
    /\ tablaVisible' = actualizarVisualizacion(tbodyEntrega')
    /\ avisos' = 0
    /\ evento' = Ev("cargarBienesEnTabla", solicitudId, "", "")
    /\ UNCHANGED <<varsFunciones, varsOrden, pagina, ediciones, solicitudCargada, selectSolicitud,
                   modalVisible, infoVisible, cargasEnVuelo, detallesJson>>

NextSync ==
    \/ \E k \in 1..Len(ListasDeIds) : llamarProcesarDetalles(k)
    \/ \E s \in SolicitudesEntrega : llamarCargarEnTabla(s)
    \/ \E i \in 0..(MaxContador - 1), t \in Tipos : eliminarFila(i, t)
    \/ \E i \in 0..(MaxContador - 1), t \in Tipos, v \in CantidadesTecleadas :
          inputCampo(i, t, "cantidad", v)
    \/ \E i \in 0..(MaxContador - 1), t \in Tipos, v \in DescuentosTecleados :
          inputCampo(i, t, "descuento", v)
    \/ \E i \in 0..(MaxFilas - 1), v \in CantidadesEntrega : inputCantidad(i, v)

SpecSync == Init /\ [][NextSync]_vars

----------------------------------------------------------------------------
(* Functions of the order script called on their own, with arguments drawn from
   small sets: APIClient.fetchDetallesSolicitudes, TotalesCalculator.
   calculateSubtotal and TotalesCalculator.updateAllTotales *)

RECURSIVE ListasHasta(_)
ListasHasta(n) ==
    IF n = 0 THEN {<<>>}
    ELSE ListasHasta(n - 1) \cup
         {Append(l, s) : l \in {m \in ListasHasta(n - 1) : Len(m) = n - 1}, s \in Solicitudes}

\* quantity in whole units; price and discount in thousandths; descuento <<>> is
\* a call with two arguments
ArgsSubtotal ==
    [fn : {"calculateSubtotal"}, cantidad : {0, 1, 3}, precioUnitario : {0, 1005, 50000},
     descuento : {<<>>, <<0>>, <<200000>>}]

\* rows as buildRow makes them, then edited
FilasDePrueba ==
    {[index |-> i, ref |-> 1, solicitud |-> 1, cantidad |-> c, precio |-> <<50000>>,
      descuento |-> d] : i \in 0..1, c \in {<<>>, <<2>>}, d \in {<<0>>, <<200000>>}}

TablasDePrueba ==
    {<<>>} \cup {<<f>> : f \in {g \in FilasDePrueba : g.index = 0}}
           \cup {<<f, g>> : f \in {h \in FilasDePrueba : h.index = 0},
                            g \in {h \in FilasDePrueba : h.index = 1}}

Entradas ==
    [fn : {"fetchDetallesSolicitudes"}, solicitudIds : ListasHasta(MaxIds)]
    \cup ArgsSubtotal
    \cup [fn : {"updateAllTotales"}, tbA : TablasDePrueba,
          tbB : {t \in TablasDePrueba : Len(t) <= 1}]

InicioFunciones ==
    /\ pagina = "orden"
    /\ evento = Ev("inicio", 0, "", "")
    /\ avisos = 0
    /\ ediciones = 0
    /\ InitOrden
    /\ InitEntrega
    /\ entrada \in Entradas
    /\ salida = <<>>

llamarFetchDetallesSolicitudes ==
    /\ entrada.fn = "fetchDetallesSolicitudes"
    /\ salida = <<>>
    /\ salida' = <<fetchDetallesSolicitudes(entrada.solicitudIds)>>
    /\ UNCHANGED <<pagina, evento, avisos, ediciones, varsOrden, varsEntrega, entrada>>

resolverFetchDetallesSolicitudes(resultado) ==
    /\ entrada.fn = "fetchDetallesSolicitudes"
    /\ salida # <<>>
    /\ salida[1].estado = "pendiente"
    /\ salida' = <<fetchDetallesSolicitudesResuelto(salida[1], resultado)>>
    /\ UNCHANGED <<pagina, evento, avisos, ediciones, varsOrden, varsEntrega, entrada>>

\* calculateSubtotal(cantidad, precioUnitario) or (cantidad, precioUnitario, descuento):
\* the default value of the third parameter is 0
llamarCalculateSubtotal ==
    /\ entrada.fn = "calculateSubtotal"
    /\ salida = <<>>
    /\ salida' = <<calculateSubtotal(entrada.cantidad, entrada.precioUnitario,
                                     IF entrada.descuento = <<>> THEN 0
                                     ELSE entrada.descuento[1])>>
    /\ UNCHANGED <<pagina, evento, avisos, ediciones, varsOrden, varsEntrega, entrada>>

llamarUpdateAllTotales ==
    /\ entrada.fn = "updateAllTotales"
    /\ salida = <<>>
    /\ salida' = <<updateAllTotales(entrada.tbA, entrada.tbB, 2, 2)>>
    /\ UNCHANGED <<pagina, evento, avisos, ediciones, varsOrden, varsEntrega, entrada>>

NextFunciones ==
    \/ llamarFetchDetallesSolicitudes
    \/ \E r \in {"ok", "sin_detalles", "error"} : resolverFetchDetallesSolicitudes(r)
    \/ llamarCalculateSubtotal
    \/ llamarUpdateAllTotales

SpecFunciones == InicioFunciones /\ [][NextFunciones]_vars

----------------------------------------------------------------------------
(* The order page when requests are only selected, every fetch succeeds and no
   row is removed; fields may be edited *)

NextSeleccion ==
    \/ \E s \in Solicitudes : agregarSolicitud(s)
    \/ \E s \in Solicitudes : respuestaSolicitudes(s, "ok")
    \/ \E i \in 0..(MaxContador - 1), t \in Tipos, v \in CantidadesTecleadas :
          inputCampo(i, t, "cantidad", v)
    \/ \E i \in 0..(MaxContador - 1), t \in Tipos, v \in PreciosTecleados :
          inputCampo(i, t, "precio", v)
    \/ \E i \in 0..(MaxContador - 1), t \in Tipos, v \in DescuentosTecleados :
          inputCampo(i, t, "descuento", v)

SpecSeleccion == InicioOrden /\ [][NextSeleccion]_vars

----------------------------------------------------------------------------
(* Properties *)

\* the total of a table: quantity * unit price - discount over the rows it holds
TotalDe(tbody) ==
    SeqSum([i \in 1..Len(tbody) |->
               NumOrZero(tbody[i].cantidad) * NumOrZero(tbody[i].precio)
               - NumOrZero(tbody[i].descuento)])

FilasOrden == Range(tbodyArticulos) \cup Range(tbodyBienes)

SinRepetidos(ids) == \A i, j \in 1..Len(ids) : i # j => ids[i] # ids[j]

Refs(tbody) == [i \in 1..Len(tbody) |-> tbody[i].ref]
Ids(filas) == [i \in 1..Len(filas) |-> filas[i].id]

\* C1: on the order page, after any sequence of additions, row deletions, request
\* removals and 'input' edits, the totals updateAllTotales computed last are the
\* sums of quantity * unit price - discount over exactly the article rows and the
\* asset rows now in the tables, and the grand total is their sum.
C1_TotalesSonLaSuma ==
    /\ totales.totalArticulos = TotalDe(tbodyArticulos)
    /\ totales.totalBienes = TotalDe(tbodyBienes)
    /\ totales.totalGeneral = TotalDe(tbodyArticulos) + TotalDe(tbodyBienes)

\* a row was deleted after an edit, rows of both kinds remain, the total is not 0
C1_Testigo ==
    /\ evento.nombre = "eliminarFila"
    /\ ediciones > 0
    /\ tbodyArticulos # <<>>
    /\ tbodyBienes # <<>>
    /\ totales.totalGeneral # 0
    /\ totales.totalGeneral # totales.totalArticulos

\* C2: in every reachable state of every page, no two active line items of the
\* same kind carry the same catalog reference id.
C2_ReferenciasUnicas ==
    /\ SinRepetidos(Refs(tbodyArticulos))
    /\ SinRepetidos(Refs(tbodyBienes))
    /\ SinRepetidos(Ids(seleccionados))
    /\ SinRepetidos(Ids(tbodyEntrega))

\* C3: quitarSolicitud(R) removes exactly the article rows and asset rows whose
\* parent request is R: every other row stays, unchanged and in the same order, no
\* row of R stays, and when both tables end up without rows the three totals are 0.
C3_QuitarSolicitudExacto ==
    [][\A s \in Solicitudes :
          (evento'.nombre = "quitarSolicitud" /\ evento'.arg = s) =>
              /\ \A tb \in {<<tbodyArticulos, tbodyArticulos'>>, <<tbodyBienes, tbodyBienes'>>} :
                    /\ Range(tb[2]) = {f \in Range(tb[1]) : f.solicitud # s}
                    /\ Len(tb[2]) = Cardinality({i \in 1..Len(tb[1]) : tb[1][i].solicitud # s})
                    /\ \A i, j \in 1..Len(tb[2]) : i < j => tb[2][i].index < tb[2][j].index
              /\ (tbodyArticulos' = <<>> /\ tbodyBienes' = <<>>) =>
                    /\ totales'.totalArticulos = 0
                    /\ totales'.totalBienes = 0
                    /\ totales'.totalGeneral = 0]_vars

\* request 1 was removed while an article row of request 2 sits in the same table
C3_Testigo ==
    /\ evento.nombre = "quitarSolicitud"
    /\ evento.arg = 1
    /\ \E f \in Range(tbodyArticulos) : f.solicitud = 2
    /\ contadorArticulos = 3

\* C4: once no fetch is outstanding, the parent request of every row is selected
\* (the response of a fetch that included a request deselected meanwhile inserts
\* no row for it).
C4_SinFilasDeSolicitudQuitada ==
    (\A s \in Solicitudes : enVuelo[s] = <<>>) =>
        \A f \in FilasOrden : f.solicitud \in Range(solicitudesSeleccionadas)

\* C5: when the fetch started by selecting request R fails, R ends not selected:
\* not in solicitudesSeleccionadas, not in a hidden 'solicitudes' input, and with
\* its button still on 'agregar'.
C5_FalloDejaNoSeleccionada ==
    (evento.nombre = "respuestaSolicitudes" /\ evento.res = "error") =>
        /\ evento.arg \notin Range(solicitudesSeleccionadas)
        /\ evento.arg \notin Range(camposSolicitudes)
        /\ botonAccion[evento.arg] = "agregar"

LineasDePedido == <<tbodyArticulos, tbodyBienes, seleccionados, tbodyEntrega, solicitudCargada>>

\* C6: on every page a failed detail fetch (rejected, undecodable, or success =
\* false on a delivery page) leaves the line items as they were: neither the user
\* action that started the fetch nor the handler of the failure changes the item
\* list, the rows or solicitudCargada, and the failure shows one notice.
C6_FalloNoCambiaLineas ==
    [][/\ evento'.res = "fetch" => UNCHANGED LineasDePedido
       /\ (/\ evento'.nombre \in {"respuestaSolicitudes", "respuestaEntrega"}
           /\ evento'.res \in {"error", "sin_exito"})
          => (UNCHANGED LineasDePedido /\ avisos' = 1)]_vars

\* a fetch failed on a delivery page that holds the rows of a loaded request
C6_Testigo ==
    /\ evento.nombre = "respuestaEntrega"
    /\ evento.res = "sin_exito"
    /\ solicitudCargada
    /\ tbodyEntrega # <<>>

\* C7: on the delivery pages, selecting a catalog entry whose id is already in the
\* selected list shows a warning and changes neither the list, the rows nor
\* contadorFilas.
C7_DuplicadoRechazado ==
    [][\A b \in Catalogo :
          (/\ evento'.nombre = "seleccionarBien"
           /\ evento'.arg = b
           /\ \E x \in Range(seleccionados) : x.id = b)
          => (UNCHANGED <<seleccionados, tbodyEntrega, contadorFilas>> /\ avisos' = 1)]_vars

\* an entry already in the list was chosen again
C7_Testigo ==
    /\ evento.nombre = "seleccionarBien"
    /\ evento.res = "duplicado"
    /\ \E x \in Range(seleccionados) : x.id = evento.arg

\* the quantity of a row as the submit handler of page p takes it (whole units for
\* assets), in halves; 0 for an empty field
CantidadDeFila(p, fila) ==
    IF fila.cantidad = <<>> THEN 0
    ELSE IF p = "bienes" THEN ParseInt(fila.cantidad[1]) ELSE fila.cantidad[1]

\* the quantity of a row is above its ceiling: the pending quantity when > 0, and
\* for articles the stock on hand
SobreTecho(p, fila) ==
    \/ fila.pendiente > 0 /\ CantidadDeFila(p, fila) > fila.pendiente
    \/ p = "articulos" /\ CantidadDeFila(p, fila) > fila.stock

SinMarca(filas) == [i \in 1..Len(filas) |-> [filas[i] EXCEPT !.invalido = FALSE]]

C9_SerializadoDentroDeLimites ==
    /\ (evento.nombre = "handleFormSubmit" /\ evento.res = "enviado") =>
          \A d \in Range(articulosJson) \cup Range(bienesJson) : d.cantidad > 0
    /\ (evento.nombre = "validarYEnviarFormulario" /\ evento.res = "enviado") =>
          /\ Len(detallesJson) = Len(tbodyEntrega)
          /\ \A i \in 1..Len(detallesJson) :
                /\ detallesJson[i].cantidad > 0
                /\ tbodyEntrega[i].pendiente > 0 =>
                      detallesJson[i].cantidad <= tbodyEntrega[i].pendiente
                /\ pagina = "articulos" =>
                      detallesJson[i].cantidad <= tbodyEntrega[i].stock

\* an articles delivery went through with a row that has a pending quantity and an
\* edited quantity
C9_Testigo ==
    /\ pagina = "articulos"
    /\ evento.nombre = "validarYEnviarFormulario"
    /\ evento.res = "enviado"
    /\ ediciones > 0
    /\ \E i \in 1..Len(detallesJson) :
          tbodyEntrega[i].pendiente > 0 /\ detallesJson[i].cantidad < tbodyEntrega[i].pendiente

\* the rows created from a parent request, by what identifies them in the DOM
FilasDeSolicitud ==
    {<<"articulo", f.index>> : f \in {g \in Range(tbodyArticulos) : g.solicitud # 0}}
    \cup {<<"bien", f.index>> : f \in {g \in Range(tbodyBienes) : g.solicitud # 0}}
    \cup {<<"entrega", f.filaId>> : f \in {g \in Range(tbodyEntrega) : g.desdeSolicitud}}

\* C10: a row created from a parent request is removed by no user action other
\* than deselecting its parent request (on the delivery pages: changing or
\* clearing the request selector).
C10_FilaDeSolicitudSoloConSuSolicitud ==
    [][(\E f \in FilasDeSolicitud : f \notin FilasDeSolicitud')
       => evento'.nombre \in {"quitarSolicitud", "handleSolicitudChange", "respuestaEntrega"}]_vars

\* what a submit serializes for a row: its reference id and the numbers now in
\* its quantity, price and discount fields
EntradaDe(fila) ==
    [id              |-> fila.ref,
     cantidad        |-> NumOrZero(fila.cantidad),
     precio_unitario |-> NumOrZero(fila.precio),
     descuento       |-> NumOrZero(fila.descuento)]

Ascendente(tbody) == \A i, j \in 1..Len(tbody) : i < j => tbody[i].index < tbody[j].index

\* C11: on the order page, after a submit that passed validation, articulosJson
\* has one entry per article row now in the table, in ascending row-index order,
\* with the row's id, quantity, price and discount; bienesJson likewise for the
\* asset rows; rows removed earlier appear in neither.
C11_SerializaFilasPresentes ==
    (evento.nombre = "handleFormSubmit" /\ evento.res = "enviado") =>
        /\ Ascendente(tbodyArticulos)
        /\ Ascendente(tbodyBienes)
        /\ articulosJson = [i \in 1..Len(tbodyArticulos) |-> EntradaDe(tbodyArticulos[i])]
        /\ bienesJson = [i \in 1..Len(tbodyBienes) |-> EntradaDe(tbodyBienes[i])]

\* a submit went through with the last article row created still present, an
\* earlier article row removed, an edited field and an asset row
C11_Testigo ==
    /\ evento.nombre = "handleFormSubmit"
    /\ evento.res = "enviado"
    /\ Len(tbodyArticulos) = 2
    /\ contadorArticulos = 3
    /\ \E f \in Range(tbodyArticulos) : f.index = 2
    /\ ediciones > 0
    /\ Len(bienesJson) > 0

FilaInvalida(fila) == fila.cantidad = <<>> \/ fila.cantidad[1] <= 0

\* C12: on the order page, a submit while some row present (article or asset)
\* has an empty or non-positive quantity is cancelled and leaves articulosJson and
\* bienesJson as they were, also when only an asset row is invalid.
C12_InvalidaCancelaSinEscribir ==
    [][(/\ evento'.nombre = "handleFormSubmit"
        /\ \E f \in FilasOrden : FilaInvalida(f))
       => /\ evento'.res = "cancelado"
          /\ UNCHANGED <<articulosJson, bienesJson>>]_vars

\* a submit was cancelled with every article row valid and an asset row invalid
C12_Testigo ==
    /\ evento.nombre = "handleFormSubmit"
    /\ evento.res = "cancelado"
    /\ tbodyArticulos # <<>>
    /\ \A f \in Range(tbodyArticulos) : ~FilaInvalida(f)
    /\ \E f \in Range(tbodyBienes) : FilaInvalida(f)

\* the reference ids of the detail records of one kind in an order response
RefsDeTipo(detalles, tipo) ==
    LET s == SelectSeq(detalles, LAMBDA d : d.tipo = tipo)
    IN  [i \in 1..Len(s) |-> s[i].ref]

\* C13: on every page the handler of a fetch response either inserts a line item
\* for every detail record of the response or leaves the item list and the rows
\* exactly as they were; a response that cannot be applied in full (such as
\* success = true without an item list) does not clear or partly replace them.
C13_RespuestaAtomica ==
    [][/\ evento'.nombre = "respuestaEntrega" =>
            \/ /\ evento'.res = "ok"
               /\ Ids(seleccionados') = Ids(ItemsDe(evento'.arg))
               /\ Ids(tbodyEntrega') = Ids(ItemsDe(evento'.arg))
            \/ UNCHANGED <<seleccionados, tbodyEntrega>>
       /\ evento'.nombre = "respuestaSolicitudes" =>
            \/ /\ evento'.res = "ok"
               /\ Refs(tbodyArticulos') = Refs(tbodyArticulos) \o
                      RefsDeTipo(DetallesRespuesta(enVuelo[evento'.arg][1]), "articulo")
               /\ Refs(tbodyBienes') = Refs(tbodyBienes) \o
                      RefsDeTipo(DetallesRespuesta(enVuelo[evento'.arg][1]), "bien")
            \/ UNCHANGED <<tbodyArticulos, tbodyBienes>>]_vars

Veces(s, x) == Cardinality({i \in 1..Len(s) : s[i] = x})

\* the rows of a table that were created from detail record d
FilasDelDetalle(tbody, d) ==
    {i \in 1..Len(tbody) : tbody[i].ref = d.ref /\ tbody[i].solicitud = d.solicitud_id}

\* C14: on the order page, 'agregar' triggered again for request R while R's fetch
\* is outstanding issues no fetch, inserts no row and leaves R exactly once in
\* solicitudesSeleccionadas; when R's fetch then resolves, each detail record of R
\* is present exactly once.
C14_ReintentoSinDuplicar ==
    [][\A s \in Solicitudes :
          /\ (evento'.nombre = "agregarSolicitud" /\ evento'.arg = s /\ enVuelo[s] # <<>>)
             => /\ UNCHANGED <<enVuelo, tbodyArticulos, tbodyBienes>>
                /\ Veces(solicitudesSeleccionadas', s) = 1
          /\ (/\ evento.nombre = "agregarSolicitud" /\ evento.res = "ignorada"
              /\ evento.arg = s
              /\ evento'.nombre = "respuestaSolicitudes" /\ evento'.res = "ok"
              /\ evento'.arg = s)
             => \A i \in 1..Len(DetallesDe(s)) :
                   LET d == DetallesDe(s)[i]
                   IN  Cardinality(FilasDelDetalle(
                           IF d.tipo = "articulo" THEN tbodyArticulos' ELSE tbodyBienes',
                           d)) = 1]_vars

\* request s is selected in the list / on its button / in the hidden inputs
EnLista(s) == s \in Range(solicitudesSeleccionadas)
EnBoton(s) == botonAccion[s] = "quitar"
EnCampos(s) == s \in Range(camposSolicitudes)

\* C15: on the order page every toggle button is on 'agregar' or 'quitar'; whenever
\* no fetch is outstanding, a request is in solicitudesSeleccionadas iff its button
\* is on 'quitar' iff a hidden 'solicitudes' input holds it; and right after a
\* deselect of R, R is in none of the three, no row has parent R and the totals
\* are those of the rows left.
C15_ToggleCoherente ==
    /\ [](/\ \A s \in Solicitudes : botonAccion[s] \in {"agregar", "quitar"}
          /\ (\A s \in Solicitudes : enVuelo[s] = <<>>) =>
                \A s \in Solicitudes :
                    (EnLista(s) <=> EnBoton(s)) /\ (EnLista(s) <=> EnCampos(s)))
    /\ [][\A s \in Solicitudes :
             (evento'.nombre = "quitarSolicitud" /\ evento'.arg = s) =>
                 /\ s \notin Range(solicitudesSeleccionadas')
                 /\ botonAccion'[s] = "agregar"
                 /\ s \notin Range(camposSolicitudes')
                 /\ \A f \in Range(tbodyArticulos') \cup Range(tbodyBienes') :
                        f.solicitud # s
                 /\ totales'.totalArticulos = TotalDe(tbodyArticulos')
                 /\ totales'.totalBienes = TotalDe(tbodyBienes')
                 /\ totales'.totalGeneral = TotalDe(tbodyArticulos') + TotalDe(tbodyBienes')]_vars

\* request 1 was deselected while request 2 stays selected with rows and a
\* non-zero total, and no fetch is outstanding
C15_Testigo ==
    /\ evento.nombre = "quitarSolicitud"
    /\ evento.arg = 1
    /\ EnLista(2) /\ EnBoton(2) /\ EnCampos(2)
    /\ \A s \in Solicitudes : enVuelo[s] = <<>>
    /\ tbodyArticulos # <<>>
    /\ totales.totalGeneral # 0

\* what the user sees of the item tables: the rows in order, without the ids the
\* script numbers them with
FilasVisibles ==
    << [i \in 1..Len(tbodyArticulos) |->
           <<tbodyArticulos[i].ref, tbodyArticulos[i].cantidad, tbodyArticulos[i].precio,
             tbodyArticulos[i].descuento>>],
       [i \in 1..Len(tbodyBienes) |->
           <<tbodyBienes[i].ref, tbodyBienes[i].cantidad, tbodyBienes[i].precio,
             tbodyBienes[i].descuento>>],
       [i \in 1..Len(tbodyEntrega) |->
           <<tbodyEntrega[i].id, tbodyEntrega[i].cantidad, tbodyEntrega[i].pendiente,
             tbodyEntrega[i].desdeSolicitud>>] >>

\* C16: applying the same fetched list a second time, right after the first,
\* leaves the visible rows as the first application left them (no duplicate
\* rows): for cargarBienesEnTabla / cargarArticulosEnTabla and for
\* procesarDetalles.
C16_AplicarDosVecesIgual ==
    [][(/\ evento'.nombre \in {"procesarDetalles", "cargarBienesEnTabla"}
        /\ evento.nombre = evento'.nombre
        /\ evento.arg = evento'.arg)
       => FilasVisibles' = FilasVisibles]_vars

\* C17: a submit attempt stopped by one or more invalid quantity fields shows
\* exactly one notice, however many fields are invalid: validarYEnviarFormulario
\* on the delivery pages, handleFormSubmit on the order page.
C17_UnSoloAviso ==
    (\/ evento.nombre = "validarYEnviarFormulario" /\ evento.res = "invalido"
     \/ evento.nombre = "handleFormSubmit" /\ evento.res = "cancelado")
    => avisos = 1

\* C18: fetchDetallesSolicitudes called with an empty id list returns an empty
\* list at once and issues no network call; called with a non-empty list it
\* issues exactly one call, which carries every id of the list, in order.
C18_FetchUnaLlamada ==
    (entrada.fn = "fetchDetallesSolicitudes" /\ salida # <<>>) =>
        IF entrada.solicitudIds = <<>>
        THEN /\ salida[1].llamadas = <<>>
             /\ salida[1].estado = "resuelta"
             /\ salida[1].valor = <<>>
        ELSE /\ Len(salida[1].llamadas) = 1
             /\ salida[1].llamadas[1] = entrada.solicitudIds

\* the call with the empty list has returned
C18_Testigo ==
    /\ entrada.fn = "fetchDetallesSolicitudes"
    /\ entrada.solicitudIds = <<>>
    /\ salida # <<>>

\* a table without its i-th row
SinFila(tbody, i) == SubSeq(tbody, 1, i - 1) \o SubSeq(tbody, i + 1, Len(tbody))

BrutoMenosDescuento(fila) ==
    NumOrZero(fila.cantidad) * NumOrZero(fila.precio) - NumOrZero(fila.descuento)

\* C19: calculateSubtotal(q, p, d) is q * p - d, with d = 0 when it is omitted
\* and without clamping (negative whenever d > q * p); and in updateAllTotales a
\* row whose subtotal is negative lowers the total of its kind and the grand
\* total by that amount.
C19_SubtotalSinAcotar ==
    /\ (entrada.fn = "calculateSubtotal" /\ salida # <<>>) =>
          LET d == IF entrada.descuento = <<>> THEN 0 ELSE entrada.descuento[1]
          IN  /\ salida[1] = entrada.cantidad * entrada.precioUnitario - d
              /\ (d > entrada.cantidad * entrada.precioUnitario) => salida[1] < 0
    /\ (entrada.fn = "updateAllTotales" /\ salida # <<>>) =>
          /\ \A i \in 1..Len(entrada.tbA) :
                 BrutoMenosDescuento(entrada.tbA[i]) < 0 =>
                     /\ salida[1].totalArticulos =
                            TotalDe(SinFila(entrada.tbA, i)) + BrutoMenosDescuento(entrada.tbA[i])
                     /\ salida[1].totalGeneral =
                            TotalDe(SinFila(entrada.tbA, i)) + TotalDe(entrada.tbB)
                            + BrutoMenosDescuento(entrada.tbA[i])
          /\ \A i \in 1..Len(entrada.tbB) :
                 BrutoMenosDescuento(entrada.tbB[i]) < 0 =>
                     /\ salida[1].totalBienes =
                            TotalDe(SinFila(entrada.tbB, i)) + BrutoMenosDescuento(entrada.tbB[i])
                     /\ salida[1].totalGeneral =
                            TotalDe(entrada.tbA) + TotalDe(SinFila(entrada.tbB, i))
                            + BrutoMenosDescuento(entrada.tbB[i])

\* the totals of a table with a row of positive and a row of negative subtotal
C19_Testigo ==
    /\ entrada.fn = "updateAllTotales"
    /\ salida # <<>>
    /\ \E i, j \in 1..Len(entrada.tbA) :
          /\ BrutoMenosDescuento(entrada.tbA[i]) < 0
          /\ BrutoMenosDescuento(entrada.tbA[j]) > 0
    /\ salida[1].totalArticulos < 0

\* the number of rows, of both kinds, whose parent request is s
FilasConPadre(s) ==
    Cardinality({i \in 1..Len(tbodyArticulos) : tbodyArticulos[i].solicitud = s})
    + Cardinality({i \in 1..Len(tbodyBienes) : tbodyBienes[i].solicitud = s})

\* C20: on the order page, after successful selections only, once every fetch
\* has been answered each selected request has as many rows as it has detail
\* records (a later selection does not insert the records of the requests
\* selected before it again).
C20_FilasPorSolicitud ==
    (\A s \in Solicitudes : enVuelo[s] = <<>>) =>
        \A s \in Range(solicitudesSeleccionadas) : FilasConPadre(s) = Len(DetallesDe(s))

----------------------------------------------------------------------------
(* Delivery pages: late responses, manual selection, list and table *)

SinCargas == \A s \in SolicitudesEntrega : cargasEnVuelo[s] = 0

\* the rows that cargarBienesEnTabla / cargarArticulosEnTabla added
FilasDesdeSolicitud == SelectSeq(tbodyEntrega, LAMBDA f : f.desdeSolicitud)

\* C21: on the delivery pages a response that arrives for a request the selector
\* no longer holds (the selector was cleared or moved to another request while
\* the fetch was in flight) loads nothing: it leaves the list, the rows and
\* solicitudCargada as they were, or leaves no request loaded; and once no fetch
\* is outstanding an empty selector has no request loaded and no request rows.
C21_RespuestaTardiaDescartada ==
    /\ [](SinCargas /\ selectSolicitud = 0 =>
              ~solicitudCargada /\ FilasDesdeSolicitud = <<>>)
    /\ [][(evento'.nombre = "respuestaEntrega" /\ evento'.arg # selectSolicitud') =>
             \/ UNCHANGED <<seleccionados, tbodyEntrega, solicitudCargada>>
             \/ ~solicitudCargada' /\ SelectSeq(tbodyEntrega', LAMBDA f : f.desdeSolicitud) = <<>>]_vars

\* C22: on the delivery pages, whenever solicitudCargada is true every row of
\* the table was loaded from a request, and a click in the selection modal adds
\* nothing while a request is loaded (also when the modal was opened before the
\* request's fetch was answered).
C22_CargadaSinManuales ==
    /\ [](solicitudCargada => \A f \in Range(tbodyEntrega) : f.desdeSolicitud)
    /\ [][(solicitudCargada /\ evento'.nombre = "seleccionarBien") =>
             UNCHANGED <<seleccionados, tbodyEntrega>>]_vars

\* C23: on the delivery pages the list of selected items and the table agree
\* after every handler: the ids of bienesSeleccionados / articulosSeleccionados
\* are the ids of the rows of the table body, in the same order.
C23_ListaIgualTabla == Ids(seleccionados) = Ids(tbodyEntrega)

\* a row was deleted by hand and another row is left
C23_Testigo ==
    /\ evento.nombre = "eliminarFilaBien"
    /\ Len(tbodyEntrega) >= 1
    /\ Ids(seleccionados) = Ids(tbodyEntrega)

----------------------------------------------------------------------------
(* Row indexes *)

Indices(tbody) == [i \in 1..Len(tbody) |-> tbody[i].index]
IndicesEntrega(filas) == [i \in 1..Len(filas) |-> filas[i].filaId]

\* the indexes are below the counter and strictly increasing down the table
IndicesEnOrden(indices, contador) ==
    /\ \A i \in 1..Len(indices) : indices[i] < contador
    /\ \A i, j \in 1..Len(indices) : i < j => indices[i] < indices[j]

\* one step of a counter: it does not decrease, the rows added by the step carry
\* the values from the old counter up to the new one, each once, and no other
\* index appears
PasoDeContador(antes, despues, contador, contadorDespues) ==
    /\ contadorDespues >= contador
    /\ Range(despues) \subseteq Range(antes) \cup (contador..(contadorDespues - 1))
    /\ contador..(contadorDespues - 1) \subseteq Range(despues)

\* C24: row indexes are unique and never reused: contadorArticulos,
\* contadorBienes and contadorFilas never decrease, each added row takes the
\* counter's current value and the counter goes up by one per row, and in every
\* state no two rows of a kind share an index, every row's index is below its
\* counter and the rows of a table are in increasing index order.
C24_IndicesUnicos ==
    /\ [](/\ IndicesEnOrden(Indices(tbodyArticulos), contadorArticulos)
          /\ IndicesEnOrden(Indices(tbodyBienes), contadorBienes)
          /\ IndicesEnOrden(IndicesEntrega(tbodyEntrega), contadorFilas))
    /\ [][/\ PasoDeContador(Indices(tbodyArticulos), Indices(tbodyArticulos'),
                            contadorArticulos, contadorArticulos')
          /\ PasoDeContador(Indices(tbodyBienes), Indices(tbodyBienes'),
                            contadorBienes, contadorBienes')
          /\ PasoDeContador(IndicesEntrega(tbodyEntrega), IndicesEntrega(tbodyEntrega'),
                            contadorFilas, contadorFilas')]_vars

\* a delivery table whose first row was added after earlier rows were removed
C24_Testigo ==
    /\ pagina \in Entregas
    /\ Len(tbodyEntrega) >= 1
    /\ tbodyEntrega[1].filaId > 0
    /\ contadorFilas = tbodyEntrega[Len(tbodyEntrega)].filaId + 1

----------------------------------------------------------------------------
(* Delivery pages: ceiling of a request item, load and clear, submit *)

\* C25: on the delivery pages an item loaded from a request with pending quantity
\* 0 has ceiling 0: a submit that goes through serializes no positive quantity
\* for such an item (pending 0 does not mean "no ceiling").
C25_PendienteCeroEsTecho ==
    (evento.nombre = "validarYEnviarFormulario" /\ evento.res = "enviado") =>
        \A f \in Range(tbodyEntrega) :
            (f.desdeSolicitud /\ f.pendiente = 0) =>
                ~\E d \in Range(detallesJson) : d.id = f.id /\ d.cantidad > 0

\* C26: on the delivery pages a request load that succeeds leaves in the list
\* exactly the items of the response, one per record in response order, with
\* solicitudCargada true and none of the items and rows present before; clearing
\* the selector leaves an empty list, no rows and solicitudCargada false.
C26_CargaReemplazaYLimpia ==
    [][/\ (evento'.nombre = "respuestaEntrega" /\ evento'.res = "ok") =>
              /\ seleccionados' = [i \in 1..Len(ItemsDe(evento'.arg)) |->
                                      bienData(ItemsDe(evento'.arg)[i])]
              /\ Ids(tbodyEntrega') = Ids(ItemsDe(evento'.arg))
              /\ \A f \in Range(tbodyEntrega') :
                    f.desdeSolicitud /\ f.filaId >= contadorFilas
              /\ solicitudCargada'
       /\ (evento'.nombre = "handleSolicitudChange" /\ evento'.arg = 0) =>
              /\ seleccionados' = <<>>
              /\ tbodyEntrega' = <<>>
              /\ ~solicitudCargada']_vars

\* a request was loaded over an item selected by hand before
C26_Testigo ==
    /\ evento.nombre = "respuestaEntrega"
    /\ evento.res = "ok"
    /\ solicitudCargada
    /\ Len(tbodyEntrega) >= 1
    /\ tbodyEntrega[1].filaId > 0
    /\ Ids(seleccionados) = Ids(ItemsDe(evento.arg))

\* a row from which the submit handler builds no detail: its quantity is empty,
\* not positive or above its ceiling
SinDetalle(p, fila) == CantidadDeFila(p, fila) <= 0 \/ SobreTecho(p, fila)

\* C27: on the delivery pages a submit attempt with an empty selected list, or
\* with no row yielding a valid detail, leaves detallesJson as it was and does not
\* call submit(); and whenever submit() is called detallesJson holds one entry
\* per table row, in row order, with the row's item and quantity.
C27_EnvioCompleto ==
    [][(evento'.nombre = "validarYEnviarFormulario") =>
          /\ (\/ Len(seleccionados) = 0
              \/ \A f \in Range(tbodyEntrega) : SinDetalle(pagina, f)) =>
                 (detallesJson' = detallesJson /\ evento'.res # "enviado")
          /\ (evento'.res = "enviado") =>
                 /\ Len(detallesJson') = Len(tbodyEntrega)
                 /\ \A i \in 1..Len(tbodyEntrega) :
                       /\ detallesJson'[i].id = tbodyEntrega[i].id
                       /\ detallesJson'[i].cantidad = CantidadDeFila(pagina, tbodyEntrega[i])]_vars

\* a submit of two rows went through
C27_Testigo ==
    /\ evento.nombre = "validarYEnviarFormulario"
    /\ evento.res = "enviado"
    /\ Len(tbodyEntrega) = 2
    /\ Len(detallesJson) = 2

----------------------------------------------------------------------------
(* Order page: the 'blur' listeners of the quantity, price and discount fields *)

\* Number.prototype.toFixed(2) of a number of thousandths: the nearest hundredth;
\* when the decimal is halfway, the result depends on the double nearest to it
\* (1.005 prints "1.00", 1.125 prints "1.13"), so both neighbours are outcomes
Redondeos(v) ==
    LET abajo == (v \div 10) * 10
    IN  IF v % 10 = 0 THEN {v}
        ELSE IF v % 10 < 5 THEN {abajo}
        ELSE IF v % 10 > 5 THEN {abajo + 10}
        ELSE {abajo, abajo + 10}

toFixed2(v) == IF v >= 0 THEN Redondeos(v) ELSE {0 - r : r \in Redondeos(0 - v)}

\* the values the 'blur' listener of a field can leave in it: the quantity field
\* (whole units since its 'input' listener) gets Math.floor(parseFloat(value)) when
\* not empty, a price or discount field value.toFixed(2) when it parses
alPerderFoco(campo, valor) ==
    IF valor = <<>> THEN {<<>>}
    ELSE IF campo = "cantidad" THEN {<<(valor[1] * 2) \div 2>>}
    ELSE {<<r>> : r \in toFixed2(valor[1])}

\* a 'blur' event on a field of a row: the listener rewrites the field's value;
\* assigning to value fires no 'input' event, so onInputChange does not run
blurCampo(index, tipo, campo) ==
    /\ Activa("orden")
    /\ \E i \in 1..Len(IF tipo = "articulo" THEN tbodyArticulos ELSE tbodyBienes) :
          LET tbody == IF tipo = "articulo" THEN tbodyArticulos ELSE tbodyBienes
          IN  /\ tbody[i].index = index
              /\ \E valor \in alPerderFoco(campo, tbody[i][campo]) :
                    IF tipo = "articulo"
                    THEN /\ tbodyArticulos' = ConCampo(tbodyArticulos, index, campo, valor)
                         /\ UNCHANGED tbodyBienes
                    ELSE /\ tbodyBienes' = ConCampo(tbodyBienes, index, campo, valor)
                         /\ UNCHANGED tbodyArticulos
    /\ avisos' = 0
    /\ evento' = Ev("blur", index, tipo, campo)
    /\ UNCHANGED <<varsFunciones, varsEntrega, pagina, ediciones, solicitudesSeleccionadas,
                   contadorArticulos, contadorBienes, mensajeVacio, seccionVisible,
                   totales, camposSolicitudes, botonAccion, enVuelo, articulosJson,
                   bienesJson>>

NextFoco ==
    \/ NextSeleccion
    \/ \E i \in 0..(MaxContador - 1), t \in Tipos,
          c \in {"cantidad", "precio", "descuento"} : blurCampo(i, t, c)

\* the order page with successful selections, edits and fields losing focus
SpecFoco == InicioOrden /\ [][NextFoco]_vars

\* C28: on the order page, after every event handler, the 'blur' listeners that
\* rewrite a quantity to its floor and a price or discount to two decimals
\* included, the displayed totals of articles and of assets and the grand total
\* equal the sums of quantity * unit price - discount over the values now in the
\* fields of the rows, which are the values a submit would serialize.
C28_TotalesTrasPerderFoco ==
    LET suma(tbody) ==
            SeqSum([i \in 1..Len(tbody) |->
                       EntradaDe(tbody[i]).cantidad * EntradaDe(tbody[i]).precio_unitario
                       - EntradaDe(tbody[i]).descuento])
    IN  /\ totales.totalArticulos = suma(tbodyArticulos)
        /\ totales.totalBienes = suma(tbodyBienes)
        /\ totales.totalGeneral = suma(tbodyArticulos) + suma(tbodyBienes)

----------------------------------------------------------------------------
(* Empty-state display *)

\* C29: the empty-state display matches the rows after every operation: on the
\* delivery pages the table container is shown (and the 'sin-bienes' /
\* 'sin-articulos' message hidden) exactly when the table body has a row; on the
\* order page seccion-articulos / seccion-bienes is displayed exactly when its
\* table holds an item row, also after the last row went with eliminarFila, and
\* the placeholder row stands only in a table without item rows.
C29_VacioSegunFilas ==
    /\ pagina \in Entregas => (tablaVisible <=> Len(tbodyEntrega) > 0)
    /\ pagina = "orden" =>
          /\ seccionVisible.articulo <=> Len(tbodyArticulos) > 0
          /\ seccionVisible.bien <=> Len(tbodyBienes) > 0
          /\ mensajeVacio.articulo => Len(tbodyArticulos) = 0
          /\ mensajeVacio.bien => Len(tbodyBienes) = 0

----------------------------------------------------------------------------
(* dashboard-counters.init.js: animateCounter on one .counter-value element.
   duration / 16 is 93.75, so increment is target * 4 / 375; current is kept in
   units of 1/375 *)

MaxTarget == 3

\* the element's data-target attribute: missing, or an integer
Atributos == {<<>>} \cup {<<n>> : n \in (0 - MaxTarget)..MaxTarget}

\* parseInt(element.getAttribute('data-target')) || 0
targetDe(atributo) == IF atributo = <<>> THEN 0 ELSE atributo[1]

\* target / (duration / 16), in units of 1/375
increment(target) == 4 * target

\* mutant: the comparison is strict
alcanzadoEstricto(current, target) == current > 375 * target

\* current >= target
alcanzado(current, target) == current >= 375 * target

\* Math.floor(current)
suelo(current) == current \div 375

InicioAnimacion ==
    /\ pagina = "dashboard"
    /\ evento = Ev("inicio", 0, "", "")
    /\ avisos = 0
    /\ ediciones = 0
    /\ InitOrden
    /\ InitEntrega
    /\ entrada \in [fn : {"animateCounter"}, atributo : Atributos]
    /\ salida = <<>>

\* animateCounter(element) up to setInterval: current = 0, the timer is set, the
\* element's text is still the one the page came with
animateCounter ==
    /\ entrada.fn = "animateCounter"
    /\ salida = <<>>
    /\ salida' = <<[target |-> targetDe(entrada.atributo), current |-> 0,
                    timer |-> TRUE, textContent |-> <<>>]>>
    /\ UNCHANGED <<pagina, evento, avisos, ediciones, varsOrden, varsEntrega, entrada>>

\* one run of the interval callback
tick ==
    /\ entrada.fn = "animateCounter"
    /\ salida # <<>>
    /\ salida[1].timer
    /\ LET current == salida[1].current + increment(salida[1].target)
       IN  salida' =
              IF alcanzado(current, salida[1].target)
              THEN <<[salida[1] EXCEPT !.current = current,
                                       !.textContent = <<salida[1].target>>,
                                       !.timer = FALSE]>>
              ELSE <<[salida[1] EXCEPT !.current = current,
                                       !.textContent = <<suelo(current)>>]>>
    /\ UNCHANGED <<pagina, evento, avisos, ediciones, varsOrden, varsEntrega, entrada>>

NextAnimacion == animateCounter \/ tick

\* the browser runs the interval callback every 16 ms for as long as the timer is set
SpecAnimacion ==
    /\ InicioAnimacion
    /\ [][NextAnimacion]_vars
    /\ WF_vars(animateCounter)
    /\ WF_vars(tick)

\* the interval was cleared
Terminado == salida # <<>> /\ ~salida[1].timer

\* C30: animateCounter terminates for every integer data-target, positive, zero,
\* negative or missing: after finitely many ticks the interval is cleared and the
\* element then shows exactly the target; for a positive target every value
\* shown before that is a non-negative integer below the target, and the values
\* shown never decrease.
C30_AnimacionTermina ==
    /\ <>Terminado
    /\ [](Terminado => salida[1].textContent = <<targetDe(entrada.atributo)>>)
    /\ []((salida # <<>> /\ salida[1].timer /\ salida[1].textContent # <<>>
           /\ targetDe(entrada.atributo) > 0) =>
              /\ salida[1].textContent[1] >= 0
              /\ salida[1].textContent[1] < targetDe(entrada.atributo))
    /\ [][(salida # <<>> /\ salida[1].textContent # <<>> /\ salida' # <<>>
           /\ targetDe(entrada.atributo) > 0) =>
              salida'[1].textContent[1] >= salida[1].textContent[1]]_vars

\* the animation of a positive target ended after showing smaller values
C30_Testigo ==
    /\ Terminado
    /\ salida[1].target = MaxTarget
    /\ salida[1].textContent = <<MaxTarget>>
    /\ salida[1].current > 375 * MaxTarget

====
